---- MODULE Spec2Model ----
(***************************************************************************)
(* Model of the Danish data-science salary survey dashboard.               *)
(*                                                                         *)
(*   src/src/data.py       load_data: acquisition of the raw csv export    *)
(*                         (local cache or Backblaze download) and the     *)
(*                         normalisation pipeline on the data frame.       *)
(*   src/src/dashboard.py  the script body: sentinel filter, minimum       *)
(*                         support filter, sort orders.                    *)
(*                                                                         *)
(* A data frame is a sequence of rows; a row is a function from column     *)
(* name to cell.  Text cells are strings (TLC treats a string as the       *)
(* sequence of its one-character strings).  Numeric cells are fractions    *)
(* [num, den]; den = 0 is NaN.  A missing text cell is the marker NaN,     *)
(* which is what read_csv makes of an empty cell.                          *)
(*                                                                         *)
(* Columns of the export that load_data only renames and casts to          *)
(* "category" (job_title, num_employees, num_subordinates, region,         *)
(* received_equity, danish_national) are left out of the rows, and so is   *)
(* the timestamp column: the exports modelled are those whose timestamps   *)
(* pd.to_datetime parses and whose salary and bonus cells are numbers or   *)
(* empty.                                                                  *)
(***************************************************************************)
EXTENDS Integers, Sequences, FiniteSets, TLC

VARIABLES
    remote,      \* rows of the export stored in the Backblaze bucket
    cache,       \* files of data_dir: set of [name, rows]
    pc,          \* position in load_data
    data_path,   \* name of the file load_data reads
    raw,         \* the table read_csv returned
    df,          \* the data frame being normalised / returned
    err,         \* class of the exception that ended load_data, or "none"
    dpc,         \* position in the dashboard script
    option,      \* the selected comparison column
    FILTER_VALS, \* utils.FILTER_VALS
    MANUAL_SORT_COLS, \* utils.MANUAL_SORT_COLS
    MEDIAN_SORT_COLS, \* utils.MEDIAN_SORT_COLS
    render_df,   \* the data frame handed to px.box
    sort_order,  \* category_orders handed to px.box
    label,       \* remap probe: the input label
    remap,       \* remap probe: which remap is applied
    applied      \* remap probe: results of applying the remap repeatedly

vars == <<remote, cache, pc, data_path, raw, df, err, dpc, option, FILTER_VALS,
          MANUAL_SORT_COLS, MEDIAN_SORT_COLS, render_df, sort_order,
          label, remap, applied>>

loadVars == <<remote, cache, pc, data_path, raw, df, err>>
dashVars == <<dpc, option, FILTER_VALS, MANUAL_SORT_COLS, MEDIAN_SORT_COLS,
              render_df, sort_order>>
probeVars == <<label, remap, applied>>

(***************************************************************************)
(* Bounds of the model.                                                    *)
(***************************************************************************)
MaxRows == 2
\* rows of one kind in a clean table handed to the dashboard
MaxCount == 6
\* times a remap is applied to a label in a row
MaxApply == 2

(***************************************************************************)
(* Strings.                                                                *)
(***************************************************************************)
Range(s) == {s[i] : i \in DOMAIN s}

Digits == {"0", "1", "2", "3", "4", "5", "6", "7", "8", "9"}

UpperCase == "ABCDEFGHIJKLMNOPQRSTUVWXYZ"
LowerCase == "abcdefghijklmnopqrstuvwxyz"

\* The string made of the one-character strings of the sequence t.
RECURSIVE Str(_)
Str(t) == IF Len(t) = 0 THEN "" ELSE Head(t) \o Str(Tail(t))

\* s[i-1] and s[i-1:j]
Char(s, i) == Head(SubSeq(s, i, i))
Substr(s, i, j) == Str(SubSeq(s, i, j))

\* 1-based position of the first occurrence of the character c in s from
\* position i on, 0 if there is none.
RECURSIVE IndexOf(_, _, _)
IndexOf(c, s, i) ==
    IF i > Len(s) THEN 0
    ELSE IF Char(s, i) = c THEN i
    ELSE IndexOf(c, s, i + 1)

LowerChar(c) ==
    LET i == IndexOf(c, UpperCase, 1)
    IN  IF i = 0 THEN c ELSE Char(LowerCase, i)

\* str.lower()
RECURSIVE lower(_)
lower(s) == IF Len(s) = 0 THEN "" ELSE LowerChar(Head(s)) \o lower(Tail(s))

\* t in s, for strings
Contains(s, t) ==
    \/ Len(t) = 0
    \/ \E i \in 1..(Len(s) - Len(t) + 1) :
          Char(s, i) = Head(t) /\ Substr(s, i, i + Len(t) - 1) = t

\* s.split(sep) for a one-character separator: the list of the pieces
RECURSIVE split(_, _)
split(s, sep) ==
    LET i == IndexOf(sep, s, 1)
    IN  IF i = 0 THEN <<s>>
        ELSE <<Substr(s, 1, i - 1)>> \o split(Substr(s, i + 1, Len(s)), sep)

\* re.sub(r"\D", "", s)
StripNonDigits(s) == Str(SelectSeq(s, LAMBDA c : c \in Digits))

DigitVal(c) == IndexOf(c, "0123456789", 1) - 1

\* value of a string of decimal digits
RECURSIVE DigitsToInt(_)
DigitsToInt(s) ==
    IF Len(s) = 0 THEN 0
    ELSE 10 * DigitsToInt(Substr(s, 1, Len(s) - 1)) + DigitVal(Char(s, Len(s)))

\* a text read_csv parses as a number
IsNumericText(s) == Len(s) > 0 /\ \A i \in 1..Len(s) : Char(s, i) \in Digits

(***************************************************************************)
(* Cells.                                                                  *)
(***************************************************************************)
NaN == "NaN"                       \* a missing text cell
Frac(n, d) == [num |-> n, den |-> d]
Whole(n) == Frac(n, 1)
NaNum == Frac(0, 0)                \* a missing numeric cell
IsNaNum(q) == q.den = 0
\* q == k and q > k for a float cell q and an integer k; false of NaN
NumEq(q, k) == q.den > 0 /\ q.num = k * q.den
NumGt(q, k) == q.den > 0 /\ q.num > k * q.den
\* int(q): truncation toward zero
int(q) == IF q.num >= 0 THEN q.num \div q.den ELSE -((-q.num) \div q.den)

(***************************************************************************)
(* The survey's columns and load_data's lookup tables.                     *)
(***************************************************************************)
ConsentQuestion == "Do you agree to take part in this survey?"
ConsentYes == "I am happy to take part in this survey"

\* df.rename(columns=...): raw question text -> canonical column name
columns ==
    ( "Timestamp" :> "timestamp"
   @@ "What is your monthly salary in DKK, before tax and including pension?" :> "salary"
   @@ "How much bonus did you receive last year, in DKK?" :> "bonus"
   @@ "What tools do you use in your daily work?" :> "tools"
   @@ "In which sector do you work?" :> "sector"
   @@ "What educational background do you have?" :> "educational_background"
   @@ "What is your highest level of education?" :> "highest_education"
   @@ "How many years of relevant full-time work experience do you have?" :> "years_experience"
   @@ "What is your gender?" :> "gender" )

\* the tools dict: indicator column -> descriptive label
tools ==
    [ uses_high_level_language |-> "High-level programming languages (e.g., Python, R, MATLAB, SAS, Julia, JavaScript)",
      uses_mid_level_language |-> "Mid-level programming languages (e.g., C, C++, C#, Java, Go)",
      uses_visualisation_tools |-> "Advanced visualisation tools (e.g., PowerBI, D3.js, Tableau, Qlik)",
      uses_deployment_tools |-> "Deployment tools (e.g., Docker, AWS SageMaker, Tensorflow Serving, MLflow)",
      uses_version_control |-> "Version control systems (e.g., GitHub, GitLab, BitBucket, Beanstalk)",
      uses_spreadsheets |-> "Spreadsheets (e.g., Excel, Google Sheets)",
      uses_query_languages |-> "Query languages (e.g., SQL, BigQuery)",
      uses_distributed_computing_tools |-> "Distributed computing tools (e.g., Kubernetes, Apache Hadoop, Apache Spark, Ray)",
      uses_monitoring_tools |-> "Monitoring tools (e.g., Arize AI, WhyLabs, Grafana, Evidently, Fiddler)",
      uses_automl_tools |-> "AutoML / Low-code / No-code tools (e.g., PyCaret, TPOT, Google AutoML, Azure ML)",
      uses_rpa_tools |-> "RPA tools (e.g., Zaptest, Eggplant, HelpSystems)" ]

gender_map ==
    ( "Female (including transgender women)" :> "female"
   @@ "Male (including transgender men)" :> "male"
   @@ "Male as defined by the presence of an X- and a Y-chromosome" :> "male"
   @@ "Prefer not to say" :> "no answer" )

\* a sector table one of whose targets is a key of the table
sector_map_chained ==
    ( "University" :> "Education/Research"
   @@ "Research" :> "Education/Research"
   @@ "Trading company (Preowned Medical Equipment)" :> "Retail/E-commerce"
   @@ "Consumer industries" :> "Retail/E-commerce"
   @@ "Agency" :> "Research"
   @@ "Jobportaler" :> "Tech"
   @@ "Union" :> "Law" )

sector_map ==
    ( "University" :> "Education/Research"
   @@ "Research" :> "Education/Research"
   @@ "Trading company (Preowned Medical Equipment)" :> "Retail/E-commerce"
   @@ "Consumer industries" :> "Retail/E-commerce"
   @@ "Agency" :> "Consulting"
   @@ "Jobportaler" :> "Tech"
   @@ "Union" :> "Law" )

educational_background_map ==
    ( "Language and NLP" :> "Data Science"
   @@ "Bs in Math, Bs and Ms in Anthropology" :> "Maths / Stats"
   @@ "It teknolog" :> "Computer Science"
   @@ "Physics" :> "Natural Sciences" )

\* built by load_data and never passed to df.replace
highest_education_map ==
    ( "Doing my Master's" :> "Undergraduate (e.g., bachelor, professionsbachelor)"
   @@ "Dr.scient." :> "PhD"
   @@ "DrMedSc" :> "PhD" )

\* the salary table with the value of 700000 written for 720000 as well
salary_fixes_copied ==
    << <<56, Whole(56000)>>,
       <<65, Whole(65000)>>,
       <<700000, Whole(int(Frac(700000, 12)))>>,
       <<720000, Whole(int(Frac(700000, 12)))>>,
       <<1000000, Whole(int(Frac(1000000, 12)))>> >>

\* the salary literals load_data rewrites, in the order of its statements
salary_fixes ==
    << <<56, Whole(56000)>>,
       <<65, Whole(65000)>>,
       <<700000, Whole(int(Frac(700000, 12)))>>,
       <<720000, Whole(int(Frac(720000, 12)))>>,
       <<1000000, Whole(int(Frac(1000000, 12)))>> >>

(***************************************************************************)
(* Data-frame operations.                                                  *)
(***************************************************************************)
\* df[col] = vals: the column col replaced by the values vals, row by row.
\* (df[mask] is SelectSeq: the rows that satisfy the mask, in order.)
SetCol(t, col, vals) == [i \in DOMAIN t |-> [t[i] EXCEPT ![col] = vals[i]]]

\* df.drop(columns=cols)
DropCols(t, cols) == [i \in DOMAIN t |-> [c \in DOMAIN t[i] \ cols |-> t[i][c]]]

\* df.rename(columns=m)
RenameCols(t, m) ==
    LET new(k) == IF k \in DOMAIN m THEN m[k] ELSE k
    IN  [i \in DOMAIN t |->
            [c \in {new(k) : k \in DOMAIN t[i]} |->
                t[i][CHOOSE k \in DOMAIN t[i] : new(k) = c]]]

\* one value through df.replace({col: m}): an exact match of the whole value
Replace(m, v) == IF v \in DOMAIN m THEN m[v] ELSE v

\* read_csv gives a text column the dtype object when the table is empty or
\* some cell is neither missing nor a number; otherwise the column is numeric
\* and has no .str accessor and no string methods.
IsObjectCol(t, col) ==
    \/ Len(t) = 0
    \/ \E i \in DOMAIN t : t[i][col] # NaN /\ ~IsNumericText(t[i][col])

(***************************************************************************)
(* The exports the model is run on.                                        *)
(***************************************************************************)
SalaryQ == "What is your monthly salary in DKK, before tax and including pension?"
BonusQ == "How much bonus did you receive last year, in DKK?"
ToolsQ == "What tools do you use in your daily work?"
SectorQ == "In which sector do you work?"
EduQ == "What educational background do you have?"
HighestQ == "What is your highest level of education?"
YearsQ == "How many years of relevant full-time work experience do you have?"
GenderQ == "What is your gender?"

\* One line of the csv file.  An empty text cell is "", an empty numeric
\* cell is NaNum.
BaseRow ==
    ( ConsentQuestion :> ConsentYes
   @@ SalaryQ :> Whole(45000)
   @@ BonusQ :> Whole(0)
   @@ ToolsQ :> "Query languages (e.g., SQL, BigQuery);Spreadsheets (e.g., Excel, Google Sheets)"
   @@ SectorQ :> "Tech"
   @@ EduQ :> "Computer Science"
   @@ HighestQ :> "PhD"
   @@ YearsQ :> "5 years"
   @@ GenderQ :> "Male (including transgender men)" )

\* a line without any answer
BlankRow ==
    ( ConsentQuestion :> ""
   @@ SalaryQ :> NaNum
   @@ BonusQ :> NaNum
   @@ ToolsQ :> ""
   @@ SectorQ :> ""
   @@ EduQ :> ""
   @@ HighestQ :> ""
   @@ YearsQ :> ""
   @@ GenderQ :> "" )

FileRows ==
    {BaseRow, BlankRow,
     [BaseRow EXCEPT ![ConsentQuestion] = "I do not want to take part"],
     [BaseRow EXCEPT ![ConsentQuestion] = "", ![SalaryQ] = Whole(56)],
     [BaseRow EXCEPT ![BonusQ] = NaNum],
     [BaseRow EXCEPT ![ToolsQ] = ""],
     [BaseRow EXCEPT ![SectorQ] = ""],
     [BaseRow EXCEPT ![SalaryQ] = NaNum],
     [BaseRow EXCEPT ![SalaryQ] = Whole(0)],
     [BaseRow EXCEPT ![SalaryQ] = Whole(-100)],
     [BaseRow EXCEPT ![SalaryQ] = Frac(1, 2), ![YearsQ] = "",
                     ![GenderQ] = "Prefer not to say"],
     [BaseRow EXCEPT ![SalaryQ] = Frac(113, 2), ![YearsQ] = "Less than a year"],
     [BaseRow EXCEPT ![SalaryQ] = Whole(56), ![YearsQ] = "15+ years",
                     ![EduQ] = "Physics"],
     [BaseRow EXCEPT ![SalaryQ] = Whole(65), ![YearsQ] = "1-2 years",
                     ![SectorQ] = "BioPHARMA"],
     [BaseRow EXCEPT ![SalaryQ] = Whole(700000), ![YearsQ] = "7",
                     ![HighestQ] = "Doing my Master's"],
     [BaseRow EXCEPT ![SalaryQ] = Whole(720000), ![SectorQ] = "University",
                     ![ToolsQ] = "Spreadsheets (e.g., Excel, Google Sheets) and Stata;Stata"],
     [BaseRow EXCEPT ![SalaryQ] = Whole(1000000), ![SectorQ] = "Jobportaler",
                     ![HighestQ] = "Dr.scient.",
                     ![ToolsQ] = "RPA tools (e.g., Zaptest, Eggplant, HelpSystems)"]}

Files == UNION {[1..n -> FileRows] : n \in 0..MaxRows}

CacheName == "survey_results.csv"

(***************************************************************************)
(* load_data: acquisition.                                                 *)
(***************************************************************************)
\* Path.glob("*.csv")
IsCsv(name) == Len(name) >= 4 /\ Substr(name, Len(name) - 3, Len(name)) = ".csv"
csv_files == {f \in cache : IsCsv(f.name)}

Raise(e) ==
    /\ pc' = "failed"
    /\ err' = e

Idle ==
    /\ dpc = "idle" /\ option = "" /\ FILTER_VALS = {} /\ MANUAL_SORT_COLS = <<>>
    /\ MEDIAN_SORT_COLS = {} /\ render_df = <<>> /\ sort_order = <<>>

NoProbe == label = "" /\ remap = "" /\ applied = <<>>

Init ==
    /\ remote \in Files
    /\ cache \in {{[name |-> "README.md", rows |-> <<>>, complete |-> TRUE]},
                  {[name |-> CacheName, rows |-> remote, complete |-> TRUE]}}
    /\ pc = "start" /\ data_path = "" /\ raw = <<>> /\ df = <<>> /\ err = "none"
    /\ Idle /\ NoProbe

\* lines 26-29: use the first csv file of data_dir when there is one
CheckCache ==
    /\ pc = "start"
    /\ IF csv_files # {}
       THEN \E f \in csv_files : data_path' = f.name /\ pc' = "read"
       ELSE data_path' = data_path /\ pc' = "authorize"
    /\ UNCHANGED <<remote, cache, raw, df, err, dashVars, probeVars>>

\* lines 34-38: b2_api.authorize_account succeeds or raises
Authorize ==
    /\ pc = "authorize"
    /\ \E ok \in BOOLEAN :
          IF ok THEN pc' = "download" /\ err' = err ELSE Raise("B2Error")
    /\ UNCHANGED <<remote, cache, data_path, raw, df, dashVars, probeVars>>

\* lines 40-41: b2_api.download_file_by_id opens the download or raises
Download ==
    /\ pc = "download"
    /\ \E ok \in BOOLEAN :
          IF ok THEN pc' = "save" /\ err' = err ELSE Raise("B2Error")
    /\ UNCHANGED <<remote, cache, data_path, raw, df, dashVars, probeVars>>

\* lines 42-43: save_to writes the stream straight to
\* data_dir/survey_results.csv; when the stream breaks the bytes written so
\* far stay in that file and the exception propagates
SaveTo ==
    /\ pc = "save"
    /\ data_path' = CacheName
    /\ \E ok \in BOOLEAN :
          IF ok
          THEN /\ cache' = cache \cup
                     {[name |-> CacheName, rows |-> remote, complete |-> TRUE]}
               /\ pc' = "read" /\ err' = err
          ELSE /\ \E n \in 0..Len(remote) :
                     cache' = cache \cup
                        {[name |-> CacheName, rows |-> SubSeq(remote, 1, n),
                          complete |-> FALSE]}
               /\ Raise("B2Error")
    /\ UNCHANGED <<remote, raw, df, dashVars, probeVars>>

\* read_csv: an empty text cell is read as NaN; the index is the position
ReadCell(v) == IF v = "" THEN NaN ELSE v
ReadRow(r) ==
    [c \in DOMAIN r |->
        IF c \in {SalaryQ, BonusQ} THEN r[c] ELSE ReadCell(r[c])]

\* line 46
ReadCsv ==
    /\ pc = "read"
    /\ LET f == CHOOSE g \in cache : g.name = data_path
           t == [i \in DOMAIN f.rows |-> ReadRow(f.rows[i])]
       IN  /\ raw' = t
           /\ df' = [i \in DOMAIN t |-> t[i] @@ ("index" :> i - 1)]
    /\ pc' = "consent"
    /\ UNCHANGED <<remote, cache, data_path, err, dashVars, probeVars>>

(***************************************************************************)
(* load_data: the normalisation pipeline.                                  *)
(***************************************************************************)
\* a consent filter that keeps the rows without an answer
HasConsentOrMissing(row) == row[ConsentQuestion] \in {ConsentYes, NaN}

\* lines 48-52: df.query('@consent == "..."').drop(columns=[...])
HasConsent(row) == row[ConsentQuestion] = ConsentYes

ConsentFilter ==
    /\ pc = "consent"
    /\ df' = DropCols(SelectSeq(df, HasConsent), {ConsentQuestion})
    /\ pc' = "rename"
    /\ UNCHANGED <<remote, cache, data_path, raw, err, dashVars, probeVars>>

\* lines 54-73
Rename ==
    /\ pc = "rename"
    /\ df' = RenameCols(df, columns)
    /\ pc' = "tools"
    /\ UNCHANGED <<remote, cache, data_path, raw, err, dashVars, probeVars>>

\* a tool test that looks for the label anywhere in the answer
UsesToolSubstring(answer, desc) == Contains(answer, desc)

\* line 92, one row and one tool: desc in row.tools.split(";")
UsesTool(answer, desc) == desc \in Range(split(answer, ";"))

ExpandTools(row) ==
    [c \in DOMAIN row \cup DOMAIN tools |->
        IF c \in DOMAIN tools THEN UsesTool(row["tools"], tools[c]) ELSE row[c]]

\* lines 75-93.  The .str accessor raises AttributeError on a column that is
\* not of dtype object, and `desc in lst` raises TypeError when lst is NaN.
SplitTools ==
    /\ pc = "tools"
    /\ IF ~IsObjectCol(raw, ToolsQ)
       THEN Raise("AttributeError") /\ df' = df
       ELSE IF \E i \in DOMAIN df : df[i]["tools"] = NaN
       THEN Raise("TypeError") /\ df' = df
       ELSE /\ df' = DropCols([i \in DOMAIN df |-> ExpandTools(df[i])], {"tools"})
            /\ pc' = "experience" /\ err' = err
    /\ UNCHANGED <<remote, cache, data_path, raw, dashVars, probeVars>>

\* an experience parser that stops at the end of the first group of digits
RECURSIVE FirstDigits(_, _, _)
FirstDigits(s, i, acc) ==
    IF i > Len(s) THEN acc
    ELSE IF Char(s, i) \in Digits
         THEN FirstDigits(s, i + 1, 10 * acc + DigitVal(Char(s, i)))
         ELSE IF i > 1 /\ Char(s, i - 1) \in Digits THEN acc
         ELSE FirstDigits(s, i + 1, acc)
ParseYearsFirstGroup(answer) ==
    IF answer = NaN THEN Whole(0) ELSE Whole(FirstDigits(answer, 1, 0))

\* lines 101-105, one cell: strip the non-digits, to_numeric, fillna(0)
ParseYears(answer) ==
    LET stripped == IF answer = NaN THEN NaN ELSE StripNonDigits(answer)
        numeric == IF stripped = NaN \/ Len(stripped) = 0
                   THEN NaNum ELSE Whole(DigitsToInt(stripped))
    IN  IF IsNaNum(numeric) THEN Whole(0) ELSE numeric

\* lines 99-105
Experience ==
    /\ pc = "experience"
    /\ IF ~IsObjectCol(raw, YearsQ)
       THEN Raise("AttributeError") /\ df' = df
       ELSE /\ df' = SetCol(df, "years_experience",
                            [i \in DOMAIN df |-> ParseYears(df[i]["years_experience"])])
            /\ pc' = "gender" /\ err' = err
    /\ UNCHANGED <<remote, cache, data_path, raw, dashVars, probeVars>>

\* lines 107-114
Gender ==
    /\ pc = "gender"
    /\ df' = SetCol(df, "gender",
                    [i \in DOMAIN df |-> Replace(gender_map, df[i]["gender"])])
    /\ pc' = "salary"
    /\ UNCHANGED <<remote, cache, data_path, raw, err, dashVars, probeVars>>

\* one statement df.loc[df["salary"] == lit, "salary"] = val
FixSalary(t, fix) ==
    SetCol(t, "salary",
           [i \in DOMAIN t |->
               IF NumEq(t[i]["salary"], fix[1]) THEN fix[2] ELSE t[i]["salary"]])

\* the statements of lines 118-122 one after the other
RECURSIVE FixSalaries(_, _)
FixSalaries(t, fixes) ==
    IF fixes = <<>> THEN t ELSE FixSalaries(FixSalary(t, Head(fixes)), Tail(fixes))

PositiveSalary(row) == NumGt(row["salary"], 0)

\* lines 116-122
Salary ==
    /\ pc = "salary"
    /\ df' = FixSalaries(SelectSeq(df, PositiveSalary), salary_fixes)
    /\ pc' = "sector"
    /\ UNCHANGED <<remote, cache, data_path, raw, err, dashVars, probeVars>>

\* a pharma rule that does not lower the sector first
MergePharmaCaseSensitive(sector) ==
    IF Contains(sector, "pharma") THEN "Pharmaceuticals" ELSE sector

\* line 126
MergePharma(sector) ==
    IF Contains(lower(sector), "pharma") THEN "Pharmaceuticals" ELSE sector

\* lines 125-137, one cell
MergeSector(sector) == Replace(sector_map, MergePharma(sector))

\* lines 124-137.  sector.lower() raises AttributeError on a NaN and on a
\* number.
Sector ==
    /\ pc = "sector"
    /\ IF \E i \in DOMAIN df : df[i]["sector"] = NaN \/ ~IsObjectCol(raw, SectorQ)
       THEN Raise("AttributeError") /\ df' = df
       ELSE /\ df' = SetCol(df, "sector",
                            [i \in DOMAIN df |-> MergeSector(df[i]["sector"])])
            /\ pc' = "education" /\ err' = err
    /\ UNCHANGED <<remote, cache, data_path, raw, dashVars, probeVars>>

\* lines 139-153: educational_background is replaced; highest_education_map
\* is only built
Education ==
    /\ pc = "education"
    /\ df' = SetCol(df, "educational_background",
                    [i \in DOMAIN df |->
                        Replace(educational_background_map,
                                df[i]["educational_background"])])
    /\ pc' = "astype"
    /\ UNCHANGED <<remote, cache, data_path, raw, err, dashVars, probeVars>>

\* the columns cast to "int"; the others modelled are cast to "category",
\* which keeps their values
IntCols == {"salary", "bonus", "years_experience"}

CastRow(row) ==
    [c \in DOMAIN row |-> IF c \in IntCols THEN int(row[c]) ELSE row[c]]

\* lines 155-173.  astype("int") raises ValueError on a NaN and truncates a
\* float.
Astype ==
    /\ pc = "astype"
    /\ IF \E i \in DOMAIN df : \E c \in IntCols : IsNaNum(df[i][c])
       THEN Raise("ValueError") /\ df' = df
       ELSE /\ df' = [i \in DOMAIN df |-> CastRow(df[i])]
            /\ pc' = "done" /\ err' = err
    /\ UNCHANGED <<remote, cache, data_path, raw, dashVars, probeVars>>

Next ==
    \/ CheckCache \/ Authorize \/ Download \/ SaveTo \/ ReadCsv
    \/ ConsentFilter \/ Rename \/ SplitTools \/ Experience \/ Gender
    \/ Salary \/ Sector \/ Education \/ Astype

Spec == Init /\ [][Next]_vars

(***************************************************************************)
(* Properties of load_data.                                                *)
(***************************************************************************)
\* the line of the export an output row comes from
RawOf(row) == raw[row["index"] + 1]
Returned == pc = "done"

\* C1: every row of the returned table comes from a raw row whose consent
\* answer is exactly the enrolment sentence; a raw row with another answer,
\* or none, has no row in the returned table.
ConsentInvariant ==
    Returned =>
        /\ \A i \in DOMAIN df : RawOf(df[i])[ConsentQuestion] = ConsentYes
        /\ \A k \in DOMAIN raw :
              raw[k][ConsentQuestion] # ConsentYes =>
                  ~\E i \in DOMAIN df : df[i]["index"] = k - 1

ConsentWitness ==
    /\ Returned
    /\ Len(df) = 1
    /\ \E k \in DOMAIN raw :
          /\ raw[k][ConsentQuestion] # ConsentYes
          /\ NumGt(raw[k][SalaryQ], 0)
          /\ raw[k][ToolsQ] # NaN

\* C2: every row of the returned table has a salary > 0.
SalaryPositive ==
    Returned => \A i \in DOMAIN df : df[i]["salary"] > 0

\* the salary C3 states for a positive raw salary s, as a number cell
ClaimedSalary(s) ==
    IF NumEq(s, 56) THEN Whole(56000)
    ELSE IF NumEq(s, 65) THEN Whole(65000)
    ELSE IF NumEq(s, 700000) THEN Whole(58333)
    ELSE IF NumEq(s, 720000) THEN Whole(60000)
    ELSE IF NumEq(s, 1000000) THEN Whole(83333)
    ELSE s

\* C3 as stated: the returned salary is the table's value for the five
\* literals and the raw salary itself for every other value.
SalaryRepairAsStated ==
    Returned =>
        \A i \in DOMAIN df :
            LET c == ClaimedSalary(RawOf(df[i])[SalaryQ])
            IN  c.num = df[i]["salary"] * c.den

\* the salary statements a and b give the same cell in both orders
Commute(cell, a, b) ==
    LET column == <<[salary |-> cell]>>
    IN  FixSalary(FixSalary(column, salary_fixes[a]), salary_fixes[b])
            = FixSalary(FixSalary(column, salary_fixes[b]), salary_fixes[a])

\* C3 amended: the returned salary is the table's value for the five
\* literals and the raw salary cut to its integer part for every other
\* value (the raw salary itself when it is whole); no replacement value is
\* one of the literals, and any two of the five statements can be swapped:
\* they give the same salary in both orders, on every positive salary of the
\* table and on every replacement value.
SalaryRepairExact ==
    /\ Returned =>
          \A i \in DOMAIN df :
              df[i]["salary"] = int(ClaimedSalary(RawOf(df[i])[SalaryQ]))
    /\ \A i, j \in DOMAIN salary_fixes :
          ~NumEq(salary_fixes[i][2], salary_fixes[j][1])
    /\ pc = "salary" =>
          \A a, b \in DOMAIN salary_fixes :
              /\ \A i \in DOMAIN df :
                    PositiveSalary(df[i]) => Commute(df[i]["salary"], a, b)
              /\ \A k \in DOMAIN salary_fixes : Commute(salary_fixes[k][2], a, b)

SalaryRepairWitness ==
    /\ Returned
    /\ \E i, j \in DOMAIN df :
          /\ RawOf(df[i])[SalaryQ] = Whole(700000) /\ df[i]["salary"] = 58333
          /\ RawOf(df[j])[SalaryQ] = Frac(113, 2) /\ df[j]["salary"] = 56

\* C4 on one answer: the label is a whole element of the ';'-separated
\* answer, i.e. it stands in the answer between two ';' or ends of the text.
IsElement(answer, desc) == Contains(";" \o answer \o ";", ";" \o desc \o ";")

\* C4: uses_<tool> is true iff the tool's label is a whole element of the
\* raw tools answer split on ';', the answer "Query languages...;
\* Spreadsheets..." sets exactly uses_query_languages and uses_spreadsheets,
\* and the returned table has no tools column.
ToolIndicators ==
    Returned =>
        \A i \in DOMAIN df :
            /\ \A c \in DOMAIN tools :
                  df[i][c] = IsElement(RawOf(df[i])[ToolsQ], tools[c])
            /\ RawOf(df[i])[ToolsQ] = BaseRow[ToolsQ] =>
                  {c \in DOMAIN tools : df[i][c]}
                      = {"uses_query_languages", "uses_spreadsheets"}
            /\ "tools" \notin DOMAIN df[i]
            /\ ToolsQ \notin DOMAIN df[i]

ToolIndicatorsWitness ==
    /\ Returned
    /\ \E i, j \in DOMAIN df :
          /\ Contains(RawOf(df[i])[ToolsQ], tools["uses_spreadsheets"])
          /\ ~df[i]["uses_spreadsheets"]
          /\ df[j]["uses_rpa_tools"]

\* the first group of digits of a text, as a number; 0 without any digit
RECURSIVE LeadingToken(_, _, _)
LeadingToken(s, i, acc) ==
    IF i > Len(s) THEN acc
    ELSE IF Char(s, i) \in Digits
         THEN LeadingToken(s, i + 1, 10 * acc + DigitVal(Char(s, i)))
         ELSE IF i > 1 /\ Char(s, i - 1) \in Digits THEN acc
         ELSE LeadingToken(s, i + 1, acc)

\* every digit of a text read as one number; 0 without any digit
RECURSIVE AllDigits(_, _, _)
AllDigits(s, i, acc) ==
    IF i > Len(s) THEN acc
    ELSE IF Char(s, i) \in Digits
         THEN AllDigits(s, i + 1, 10 * acc + DigitVal(Char(s, i)))
         ELSE AllDigits(s, i + 1, acc)

\* C5 as stated: years_experience is the leading numeric token of the raw
\* answer, 0 when the answer is missing or has no digit.
ExperienceLeadingToken ==
    Returned =>
        \A i \in DOMAIN df :
            LET a == RawOf(df[i])[YearsQ]
            IN  df[i]["years_experience"] = IF a = NaN THEN 0 ELSE LeadingToken(a, 1, 0)

\* C5 amended: years_experience is an integer >= 0, the number written by
\* all the digits of the raw answer in their order (the leading numeric token
\* when the answer has one group of digits: "5 years" gives 5, "15+ years"
\* gives 15), and 0 when the answer is missing or has no digit.
ExperienceAllDigits ==
    Returned =>
        \A i \in DOMAIN df :
            LET a == RawOf(df[i])[YearsQ]
                y == df[i]["years_experience"]
            IN  /\ y \in Nat
                /\ y = IF a = NaN THEN 0 ELSE AllDigits(a, 1, 0)
                /\ a = "5 years" => y = 5
                /\ a = "15+ years" => y = 15
                /\ a = "Less than a year" => y = 0

ExperienceWitness ==
    /\ Returned
    /\ \E i, j \in DOMAIN df :
          /\ RawOf(df[i])[YearsQ] = "1-2 years" /\ df[i]["years_experience"] = 12
          /\ RawOf(df[j])[YearsQ] = NaN /\ df[j]["years_experience"] = 0

\* "pharma" occurs in the text in some mix of letter cases
HasPharma(s) ==
    \E i \in 1..(Len(s) - 5) :
        \A k \in 1..6 : Char(s, i + k - 1) \in {Char("pharma", k), Char("PHARMA", k)}

\* C6: a raw sector that contains "pharma" in any letter case gives
\* "Pharmaceuticals"; otherwise a key of the sector table gives the table's
\* target ("University" and "Research" give "Education/Research"); any other
\* sector is returned unchanged.
SectorMerge ==
    Returned =>
        \A i \in DOMAIN df :
            LET s == RawOf(df[i])[SectorQ]
                out == df[i]["sector"]
            IN  /\ HasPharma(s) => out = "Pharmaceuticals"
                /\ ~HasPharma(s) /\ s \in DOMAIN sector_map => out = sector_map[s]
                /\ ~HasPharma(s) /\ s \notin DOMAIN sector_map => out = s
                /\ s \in {"University", "Research"} => out = "Education/Research"

SectorMergeWitness ==
    /\ Returned
    /\ \E i, j \in DOMAIN df :
          /\ RawOf(df[i])[SectorQ] = "BioPHARMA" /\ df[i]["sector"] = "Pharmaceuticals"
          /\ RawOf(df[j])[SectorQ] = "University"

\* C9: when the fetch from Backblaze fails, load_data ends in an error without
\* a table, and data_dir holds no file that glob("*.csv") finds.
FetchFailureLeavesNoCsv ==
    err = "B2Error" => pc = "failed" /\ df = <<>> /\ csv_files = {}

\* C10: the returned highest_education is the highest_education table applied
\* to the raw answer, values outside the table unchanged.
HighestEducationMerged ==
    Returned =>
        \A i \in DOMAIN df :
            df[i]["highest_education"]
                = Replace(highest_education_map, RawOf(df[i])[HighestQ])

(***************************************************************************)
(* dashboard.py: the script body from the return of load_data on.          *)
(***************************************************************************)
\* grouped_df.salary > 5
MinSupport == 5

\* {} as a dict, and None as category_orders (px.box reads None as {})
EmptyDict == <<>>

\* the values of a column
Values(t, col) == {t[i][col] : i \in DOMAIN t}

\* df[col].isin(vals)
IsIn(t, col, vals) == SelectSeq(t, LAMBDA row : row[col] \in vals)

\* groupby(col).agg({"salary": "count"}), one group
GroupCount(t, col, v) == Cardinality({i \in DOMAIN t : t[i][col] = v})

\* a support filter that keeps the groups of exactly 5 rows
AllowedValsAtLeast(t, col) ==
    {v \in Values(t, col) : GroupCount(t, col, v) >= MinSupport}

\* line 38: grouped_df[grouped_df.salary > 5].index.tolist()
AllowedVals(t, col) == {v \in Values(t, col) : GroupCount(t, col, v) > MinSupport}

RECURSIVE Insert(_, _)
Insert(sorted, x) ==
    IF sorted = <<>> THEN <<x>>
    ELSE IF x <= Head(sorted) THEN <<x>> \o sorted
    ELSE <<Head(sorted)>> \o Insert(Tail(sorted), x)

RECURSIVE Sorted(_)
Sorted(xs) == IF xs = <<>> THEN <<>> ELSE Insert(Sorted(Tail(xs)), Head(xs))

\* twice the median of a non-empty sequence of integers
Median2(xs) ==
    LET ys == Sorted(xs)
        n == Len(ys)
    IN  IF n % 2 = 1 THEN 2 * ys[(n + 1) \div 2] ELSE ys[n \div 2] + ys[n \div 2 + 1]

GroupSalaries(t, col, v) ==
    LET g == SelectSeq(t, LAMBDA row : row[col] = v)
    IN  [i \in DOMAIN g |-> g[i]["salary"]]

\* lines 47-50: groupby(col).agg({"salary": "median"}).sort_values("salary")
\* .index.tolist().  The column is categorical, so every category of the
\* clean table has a group; a group without rows has the median NaN and is
\* sorted last.  Groups with equal medians come in any order.
MedianOrders(t, categories, col) ==
    LET empty(v) == GroupCount(t, col, v) = 0
        med(v) == Median2(GroupSalaries(t, col, v))
        before(a, b) == \/ empty(b)
                        \/ ~empty(a) /\ med(a) <= med(b)
    IN  {o \in [1..Cardinality(categories) -> categories] :
            /\ \A i, j \in DOMAIN o : o[i] = o[j] => i = j
            /\ \A i, j \in DOMAIN o : i < j => before(o[i], o[j])}

\* the columns the model offers in the selectbox (values of COL_NAMES)
Options == {"sector", "gender"}

CleanRow(sector, gender, salary) ==
    [sector |-> sector, gender |-> gender, salary |-> salary]

RowKinds ==
    << CleanRow("Tech", "male", 40000),
       CleanRow("Tech", "female", 60000),
       CleanRow("Law", "male", 50000),
       CleanRow("Other", "no answer", 30000) >>

RECURSIVE Repeat(_, _)
Repeat(row, n) == IF n = 0 THEN <<>> ELSE <<row>> \o Repeat(row, n - 1)

RECURSIVE Runs(_, _)
Runs(counts, k) ==
    IF k > Len(RowKinds) THEN <<>>
    ELSE Repeat(RowKinds[k], counts[k]) \o Runs(counts, k + 1)

\* The clean tables the dashboard is run on: up to MaxCount rows of each
\* kind.  isin and groupby do not look at the order of the rows, so the
\* tables are enumerated with the rows of a kind next to each other.
CleanTables ==
    {LET t == Runs(counts, 1)
     IN  [i \in DOMAIN t |-> t[i] @@ ("index" :> i - 1)] :
        counts \in [DOMAIN RowKinds -> 0..MaxCount]}

InitDash ==
    /\ remote = <<>> /\ cache = {} /\ data_path = "" /\ raw = <<>>
    /\ pc = "done" /\ err = "none"
    /\ df \in CleanTables
    /\ FILTER_VALS \in {{"Other", "Prefer not to say"}, {"Other", "no answer"}}
    /\ MANUAL_SORT_COLS \in {EmptyDict,
                             ("gender" :> <<"female", "male">>),
                             ("sector" :> <<"Law", "Public">>)}
    /\ MEDIAN_SORT_COLS \in {{}, {"sector", "gender"}}
    /\ dpc = "select" /\ option = "" /\ render_df = <<>> /\ sort_order = EmptyDict
    /\ NoProbe

\* lines 29-31
SelectOption ==
    /\ pc = "done" /\ dpc = "select"
    /\ option' \in Options
    /\ dpc' = "filter"
    /\ UNCHANGED <<loadVars, FILTER_VALS, MANUAL_SORT_COLS, MEDIAN_SORT_COLS,
                   render_df, sort_order, probeVars>>

\* lines 33-34
RemoveSentinels ==
    /\ dpc = "filter"
    /\ render_df' = SelectSeq(df, LAMBDA row : row[option] \notin FILTER_VALS)
    /\ dpc' = "support"
    /\ UNCHANGED <<loadVars, option, FILTER_VALS, MANUAL_SORT_COLS,
                   MEDIAN_SORT_COLS, sort_order, probeVars>>

\* lines 36-39
MinimumSupport ==
    /\ dpc = "support"
    /\ render_df' = IsIn(render_df, option, AllowedVals(render_df, option))
    /\ dpc' = "median"
    /\ UNCHANGED <<loadVars, option, FILTER_VALS, MANUAL_SORT_COLS,
                   MEDIAN_SORT_COLS, sort_order, probeVars>>

\* lines 43-51
MedianSort ==
    /\ dpc = "median"
    /\ IF option \in MEDIAN_SORT_COLS
       THEN \E o \in MedianOrders(render_df, Values(df, option), option) :
                sort_order' = (option :> o)
       ELSE sort_order' = EmptyDict
    /\ dpc' = "manual"
    /\ UNCHANGED <<loadVars, option, FILTER_VALS, MANUAL_SORT_COLS,
                   MEDIAN_SORT_COLS, render_df, probeVars>>

\* lines 53-56
ManualSort ==
    /\ dpc = "manual"
    /\ IF option \in DOMAIN MANUAL_SORT_COLS
       THEN /\ render_df' = IsIn(render_df, option, Range(MANUAL_SORT_COLS[option]))
            /\ sort_order' = MANUAL_SORT_COLS
       ELSE UNCHANGED <<render_df, sort_order>>
    /\ dpc' = "plot"
    /\ UNCHANGED <<loadVars, option, FILTER_VALS, MANUAL_SORT_COLS,
                   MEDIAN_SORT_COLS, probeVars>>

\* lines 58-79: px.box(render_df, ...) and st.plotly_chart
Plot ==
    /\ dpc = "plot"
    /\ dpc' = "plotted"
    /\ UNCHANGED <<loadVars, option, FILTER_VALS, MANUAL_SORT_COLS,
                   MEDIAN_SORT_COLS, render_df, sort_order, probeVars>>

NextDash ==
    \/ SelectOption \/ RemoveSentinels \/ MinimumSupport \/ MedianSort
    \/ ManualSort \/ Plot

SpecDash == InitDash /\ [][NextDash]_vars

\* C8: a category of the selected column that has at most 5 rows once the
\* sentinel values are removed has no row in the table that is plotted,
\* whether or not the column has a manual or a median sort order; the
\* plotted table may be empty.
MinimumSupportFilter ==
    dpc \in {"median", "manual", "plot", "plotted"} =>
        \A v \in Values(df, option) :
            Cardinality({i \in DOMAIN df :
                            df[i][option] = v /\ v \notin FILTER_VALS}) <= 5
                => ~\E j \in DOMAIN render_df : render_df[j][option] = v

MinimumSupportWitness ==
    /\ dpc = "plotted"
    /\ option \in DOMAIN MANUAL_SORT_COLS
    /\ option \in MEDIAN_SORT_COLS
    /\ render_df # <<>>
    /\ \E v \in Values(df, option) :
          /\ v \notin FILTER_VALS
          /\ v \in Range(MANUAL_SORT_COLS[option])
          /\ GroupCount(df, option, v) = 5

(***************************************************************************)
(* The categorical remaps of load_data applied to single labels.           *)
(***************************************************************************)
Remaps == {"gender", "sector", "educational_background", "highest_education"}

Targets(m) == {m[k] : k \in DOMAIN m}

\* every key and every target of the four tables, labels with "pharma" in
\* several letter cases, labels outside the tables, and the missing value
Labels ==
    DOMAIN gender_map \cup Targets(gender_map)
    \cup DOMAIN sector_map \cup Targets(sector_map)
    \cup DOMAIN educational_background_map \cup Targets(educational_background_map)
    \cup DOMAIN highest_education_map \cup Targets(highest_education_map)
    \cup {"Pharmaceuticals", "BioPHARMA", "Pharma", "pharmacy chain", "Phar", "Other",
          "Non-binary", "Master", NaN}

\* one application of a remap to one cell: line 114, lines 125-137, line 146,
\* and the table of lines 149-153
RemapValue(which, v) ==
    CASE which = "gender" -> Replace(gender_map, v)
      [] which = "sector" -> MergeSector(v)
      [] which = "educational_background" -> Replace(educational_background_map, v)
      [] which = "highest_education" -> Replace(highest_education_map, v)

InitRemap ==
    /\ remote = <<>> /\ cache = {} /\ data_path = "" /\ raw = <<>> /\ df = <<>>
    /\ pc = "start" /\ err = "none"
    /\ Idle
    /\ label \in Labels
    /\ remap \in Remaps
    /\ applied = <<>>

ApplyRemap ==
    /\ Len(applied) < MaxApply
    /\ remap # "sector" \/ label # NaN
    /\ applied' = Append(applied,
                         RemapValue(remap, IF applied = <<>> THEN label
                                           ELSE applied[Len(applied)]))
    /\ UNCHANGED <<loadVars, dashVars, label, remap>>

NextRemap == ApplyRemap

SpecRemap == InitRemap /\ [][NextRemap]_vars

\* C7: for the gender map, the pharma rule followed by the sector map, the
\* educational_background map and the highest_education map, and every
\* label, applying the remap again to its result gives the same label.
RemapIdempotent ==
    \A i \in DOMAIN applied : applied[i] = applied[1]

RemapWitness ==
    /\ Len(applied) = MaxApply
    /\ applied[1] # label
    /\ remap = "sector"
    /\ label = "BioPHARMA"

====
